---- MODULE Spec2Model ----
(***************************************************************************)
(* FixBot: three stand-alone command-line scripts under .github/scripts.   *)
(*   fixbot_generate_patch.py  patch generator (generative try, then       *)
(*                             log heuristics)                             *)
(*   fixbot_fetch_logs.py      log fetcher (two GETs, JSON summary)        *)
(*   fixbot_comment.py         comment poster (one POST)                   *)
(* One behaviour of the model is a sequence of invocations of one of the   *)
(* scripts on a file system that persists between the invocations.         *)
(*                                                                         *)
(* Text is modelled by TLA+ strings; a text file is the sequence of its    *)
(* lines.  An optional value (Python None or a value) is a sequence of     *)
(* length at most one.                                                     *)
(***************************************************************************)
EXTENDS Integers, Sequences, FiniteSets, TLC

VARIABLES
    prog,          \* which script this behaviour runs
    pc,            \* position of the running process
    exit,          \* exit status of the process, -1 while it runs
    stdout,        \* lines printed to the standard stream by this run
    stderr,        \* lines printed to the error stream by this run
    \* ---- patch generator: file system
    logOk,         \* the file at --logs can be opened and read
    logLines,      \* its lines
    reqState,      \* <repo-root>/requirements.txt: "absent", "unreadable", "file"
    reqLines,      \* its lines when it is a file
    repoExtra,     \* the advisory files that already exist under the repo root
    outExists,     \* a file exists at --out
    out,           \* its lines
    \* ---- patch generator: process
    openai_key,    \* os.environ.get("OPENAI_API_KEY")
    genEntries,    \* times this run entered the generative try block
    heurEntries,   \* times this run called heuristics_make_patch
    readFiles,     \* repo files this run has opened for reading
    emitted,       \* fragments this run's heuristic path has appended
    outBy,         \* what wrote the file at --out: "none", "generative", "heuristics"
    outSig,        \* the detection result of the log the file at --out was made from
    rerun,         \* this run's heuristic path found at --out, and removed, a patch
                   \* the heuristic path had made from a log with the same detections
    genResponse,   \* the text the completion call returned to this run, if it returned
    \* ---- log fetcher and comment poster
    argToken,      \* --token
    envGH,         \* GH_TOKEN
    envGITHUB,     \* GITHUB_TOKEN
    token,         \* the resolved credential
    requests,      \* HTTP requests issued by this run, in order
    responses,     \* what came back for each of them, in order
    run_info,      \* fetcher: the run section
    jobs_info,     \* fetcher: the jobs section
    summaryFile    \* fetcher: the JSON document at --out

genVars   == <<logOk, logLines, reqState, reqLines, repoExtra, outExists, out,
               openai_key, genEntries, heurEntries, readFiles, emitted, outBy, outSig,
               rerun, genResponse>>
netVars   == <<argToken, envGH, envGITHUB, token, requests, responses, run_info,
               jobs_info, summaryFile>>
vars      == <<prog, pc, exit, stdout, stderr, genVars, netVars>>

(***************************************************************************)
(* Bounds of the model.                                                    *)
(***************************************************************************)
MaxLogLen == 2     \* lines of a captured log
MaxJobs   == 2     \* jobs in a provider job list

(***************************************************************************)
(* Optional values and Python truthiness of str | None.                    *)
(***************************************************************************)
None      == <<>>
Some(v)   == <<v>>
Truthy(o) == o # None /\ o[1] # ""

(***************************************************************************)
(* Text helpers.                                                           *)
(***************************************************************************)
\* str.strip() on the strings the model draws
Strip(s) ==
    CASE s = " bar "     -> "bar"
      [] s = "  "        -> ""
      [] s = " PATCH\n"  -> "PATCH"
      [] OTHER           -> s

\* str.lower() on the names the model draws
Lower(s) ==
    CASE s = "Foo" -> "foo"
      [] s = "BAR" -> "bar"
      [] OTHER     -> s

\* str.rstrip("\n") on one line of a diff body; only a trailing newline goes
RStripNewline(s) ==
    CASE s = "foo\n" -> "foo"
      [] s = "bar\n" -> "bar"
      [] OTHER       -> s

\* the lowercased module names in code-point order, which is how sorted() orders str
NameOrder == <<"bar", "foo">>
Rank(n)   == CHOOSE i \in 1..Len(NameOrder) : NameOrder[i] = n

RECURSIVE Sorted(_)
Sorted(S) ==
    IF S = {} THEN <<>>
    ELSE LET m == CHOOSE x \in S : \A y \in S : Rank(x) <= Rank(y)
         IN  <<m>> \o Sorted(S \ {m})

Range(s) == {s[i] : i \in 1..Len(s)}

RECURSIVE SeqsUpTo(_, _)
SeqsUpTo(S, n) ==
    IF n = 0 THEN {<<>>}
    ELSE LET shorter == SeqsUpTo(S, n - 1)
         IN  shorter \cup {Append(s, x) : s \in {t \in shorter : Len(t) = n - 1}, x \in S}

(***************************************************************************)
(* PATCH GENERATOR  (fixbot_generate_patch.py)                             *)
(***************************************************************************)
REQ     == "requirements.txt"
SYSDEPS == ".fixbot_system_deps.txt"
NOTICE  == ".fixbot_notice.txt"

\* A log line is what the four regular expressions of heuristics_make_patch
\* see in it: the signature it carries and the text of the capture group.
LogAlphabet ==
    { [sig |-> "ModuleNotFoundError",    arg |-> "Foo"],
      [sig |-> "ImportError",            arg |-> "BAR"],
      [sig |-> "NoMatchingDistribution", arg |-> "foo"],
      [sig |-> "fatal error",            arg |-> "a/b.h"],
      [sig |-> "fatal error",            arg |-> "c.h"],
      [sig |-> "none",                   arg |-> ""] }

Logs == SeqsUpTo(LogAlphabet, MaxLogLen)

\* the file at --logs: missing or unreadable, or a text
LogFiles == {[ok |-> FALSE, lines |-> <<>>]} \cup {[ok |-> TRUE, lines |-> l] : l \in Logs}

\* <repo-root>/requirements.txt: absent, present but not readable (a directory,
\* no permission), or a text
ReqContents == { <<>>, <<"foo">>, <<"baz", "qux", " bar ", "quux">> }
ReqFiles ==
    {[state |-> "absent", lines |-> <<>>], [state |-> "unreadable", lines |-> <<>>]}
        \cup {[state |-> "file", lines |-> c] : c \in ReqContents}

\* values of OPENAI_API_KEY
KeyValues == { None, Some(""), Some("sk-1") }

\* texts the completion call may return in resp.choices[0].text
Responses == { "", "  ", "PATCH", " PATCH\n" }

\* re.findall of one module pattern, each match lowercased
FindModules(lines, sig) ==
    { Lower(lines[i].arg) : i \in {j \in 1..Len(lines) : lines[j].sig = sig} }

\* the set `missing` after the three module loops
MissingModules(lines) ==
    FindModules(lines, "ModuleNotFoundError")
        \cup FindModules(lines, "ImportError")
        \cup FindModules(lines, "NoMatchingDistribution")

\* variant: the names in the order the log shows them, list(missing) unsorted
MissingListUnsorted(lines) ==
    LET RECURSIVE Walk(_, _)
        Walk(i, acc) ==
            IF i > Len(lines) THEN acc
            ELSE IF lines[i].sig \in {"ModuleNotFoundError", "ImportError",
                                      "NoMatchingDistribution"}
                    /\ Lower(lines[i].arg) \notin Range(acc)
                 THEN Walk(i + 1, Append(acc, Lower(lines[i].arg)))
                 ELSE Walk(i + 1, acc)
    IN  Walk(1, <<>>)

\* missing_list = sorted(missing)
MissingList(lines) == Sorted(MissingModules(lines))

\* the header loop: order of first appearance, duplicates dropped
MissingHeaders(lines) ==
    LET RECURSIVE Walk(_, _)
        Walk(i, acc) ==
            IF i > Len(lines) THEN acc
            ELSE IF lines[i].sig = "fatal error" /\ lines[i].arg \notin Range(acc)
                 THEN Walk(i + 1, Append(acc, lines[i].arg))
                 ELSE Walk(i + 1, acc)
    IN  Walk(1, <<>>)

make_new_file_diff(relpath, new_lines) ==
    << "--- /dev/null",
       "+++ b/" \o relpath,
       "@@ -0,0 +1," \o ToString(Len(new_lines)) \o " @@" >>
    \o [i \in 1..Len(new_lines) |-> "+" \o RStripNewline(new_lines[i])]

\* difflib._format_range_unified(start, stop)
FormatRange(start, stop) ==
    LET length == stop - start
    IN  IF length = 1 THEN ToString(start + 1)
        ELSE IF length = 0 THEN ToString(start) \o ",0"
        ELSE ToString(start + 1) \o "," \o ToString(length)

\* difflib.unified_diff(old, new, n=3, lineterm="") where new is old followed
\* by lines none of which occurs in old: one hunk, up to three lines of
\* context, then the inserted lines
make_update_file_diff(relpath, old_lines, new_lines) ==
    LET first == IF Len(old_lines) > 3 THEN Len(old_lines) - 3 ELSE 0
    IN  << "--- a/" \o relpath,
           "+++ b/" \o relpath,
           "@@ -" \o FormatRange(first, Len(old_lines))
                 \o " +" \o FormatRange(first, Len(new_lines)) \o " @@" >>
        \o [i \in 1..(Len(old_lines) - first) |-> " " \o old_lines[first + i]]
        \o [i \in 1..(Len(new_lines) - Len(old_lines)) |-> "+" \o new_lines[Len(old_lines) + i]]

\* variant: the existing lines compared untrimmed
AddedNoStrip(missing_modules, old) ==
    SelectSeq(missing_modules, LAMBDA m : m \notin {old[i] : i \in 1..Len(old)})

\* added = [m for m in missing_modules if m not in [l.strip() for l in old]]
Added(missing_modules, old) ==
    SelectSeq(missing_modules, LAMBDA m : m \notin {Strip(old[i]) : i \in 1..Len(old)})

\* variant: no os.path.exists test, requirements.txt always diffed as new
write_requirements_patch_always_new(state, old, missing_modules) ==
    IF missing_modules = <<>>
    THEN [raised |-> FALSE, wrote |-> FALSE, diff |-> <<>>, reads |-> {}, frags |-> <<>>]
    ELSE [raised |-> FALSE, wrote |-> TRUE,
          diff |-> make_new_file_diff("requirements.txt", missing_modules),
          reads |-> {},
          frags |-> <<[rel |-> "requirements.txt", form |-> "new",
                       added |-> missing_modules]>>]

\* write_requirements_patch: what it does given the state of requirements.txt.
\*   raised  open() of an existing requirements.txt failed
\*   wrote   the return value
\*   diff    the lines appended to the output
\*   reads   the repo files opened for reading
\*   frags   the fragments emitted
write_requirements_patch(state, old, missing_modules) ==
    IF missing_modules = <<>>
    THEN [raised |-> FALSE, wrote |-> FALSE, diff |-> <<>>, reads |-> {}, frags |-> <<>>]
    ELSE IF state = "unreadable"
    THEN [raised |-> TRUE, wrote |-> FALSE, diff |-> <<>>, reads |-> {}, frags |-> <<>>]
    ELSE IF state = "file"
    THEN LET added == Added(missing_modules, old)
         IN  IF added = <<>>
             THEN [raised |-> FALSE, wrote |-> FALSE, diff |-> <<>>, reads |-> {REQ},
                   frags |-> <<>>]
             ELSE [raised |-> FALSE, wrote |-> TRUE,
                   diff |-> make_update_file_diff(REQ, old, old \o added),
                   reads |-> {REQ},
                   frags |-> <<[rel |-> REQ, form |-> "update", added |-> added]>>]
    ELSE [raised |-> FALSE, wrote |-> TRUE,
          diff |-> make_new_file_diff(REQ, missing_modules),
          reads |-> {},
          frags |-> <<[rel |-> REQ, form |-> "new", added |-> missing_modules]>>]

SysDepsLines(missing_headers) ==
    <<"The following headers were reported missing during CI/compile:">> \o missing_headers

\* variant: the fragment is written but the function reports False
write_system_deps_patch_unreported(missing_headers) ==
    IF missing_headers = <<>>
    THEN [wrote |-> FALSE, diff |-> <<>>, frags |-> <<>>]
    ELSE [wrote |-> FALSE,
          diff |-> make_new_file_diff(SYSDEPS, SysDepsLines(missing_headers)),
          frags |-> <<[rel |-> SYSDEPS, form |-> "new",
                       added |-> SysDepsLines(missing_headers)]>>]

write_system_deps_patch(missing_headers) ==
    IF missing_headers = <<>>
    THEN [wrote |-> FALSE, diff |-> <<>>, frags |-> <<>>]
    ELSE [wrote |-> TRUE,
          diff |-> make_new_file_diff(SYSDEPS, SysDepsLines(missing_headers)),
          frags |-> <<[rel |-> SYSDEPS, form |-> "new",
                       added |-> SysDepsLines(missing_headers)]>>]

notice_lines == <<"FixBot could not identify an automatic fix.",
                  "See .fixbot_logs.txt for details.">>

\* what the file at --out holds when heuristics_make_patch starts writing:
\* an existing file is removed first
FreshOutput(exists, content) == <<>>

\* heuristics_make_patch from the removal of the old output to its return
heuristics_make_patch(lines, state, old, exists, content) ==
    LET missing_list    == MissingList(lines)
        missing_headers == MissingHeaders(lines)
        start           == FreshOutput(exists, content)
        a               == write_requirements_patch(state, old, missing_list)
        b               == write_system_deps_patch(missing_headers)
        wrote_any       == a.wrote \/ b.wrote
        c               == IF wrote_any THEN <<>>
                           ELSE make_new_file_diff(NOTICE, notice_lines)
        cfrag           == IF wrote_any THEN <<>>
                           ELSE <<[rel |-> NOTICE, form |-> "new", added |-> notice_lines]>>
    IN  IF a.raised
        THEN [raised |-> TRUE,
              outExists |-> FALSE, out |-> <<>>,
              reads |-> a.reads, frags |-> <<>>]
        ELSE [raised |-> FALSE,
              outExists |-> TRUE, out |-> start \o a.diff \o b.diff \o c,
              reads |-> a.reads, frags |-> a.frags \o b.frags \o cfrag]

\* the detection result of a log: what the output of the heuristic path is made from
Signature(lines) == [missing |-> MissingModules(lines), headers |-> MissingHeaders(lines)]
NoSignature      == [missing |-> {}, headers |-> <<>>]

\* the outcomes of the generative try block (main, lines 117-138) once the key
\* is set: "raised" when the import, the open of the log or the call raises,
\* and otherwise the text of the response
GenerativeOutcomes(readable) ==
    {[kind |-> "raised", text |-> ""]}
        \cup (IF readable
              THEN {[kind |-> "response", text |-> r] : r \in Responses}
              ELSE {})

\* patch_text = resp.choices[0].text.strip()
patch_text(o) == Strip(o.text)

\* main, lines 108-115: parse the arguments, read OPENAI_API_KEY
GenBegin ==
    /\ prog = "generate_patch"
    /\ pc = "Start"
    /\ \E k \in KeyValues : openai_key' = k
    /\ pc' = "TryGenerative"
    /\ UNCHANGED <<prog, exit, stdout, stderr, logOk, logLines, reqState, reqLines,
                   repoExtra, outExists, out, genEntries, heurEntries, readFiles,
                   emitted, outBy, outSig, rerun, genResponse, netVars>>

\* main, lines 116-138, no credential: the try block is skipped
GenSkipped ==
    /\ prog = "generate_patch"
    /\ pc = "TryGenerative"
    /\ ~Truthy(openai_key)
    /\ pc' = "TryHeuristics"
    /\ UNCHANGED <<prog, exit, stdout, stderr, genVars, netVars>>

\* main, lines 116-134: the response is not empty: write it and return
GenSuccess ==
    /\ prog = "generate_patch"
    /\ pc = "TryGenerative"
    /\ Truthy(openai_key)
    /\ \E o \in GenerativeOutcomes(logOk) :
          /\ o.kind = "response"
          /\ patch_text(o) # ""
          /\ outExists' = TRUE
          /\ out' = <<patch_text(o)>>
          /\ genResponse' = Some(o.text)
    /\ outBy' = "generative"
    /\ outSig' = NoSignature
    /\ genEntries' = genEntries + 1
    /\ stdout' = Append(stdout, "Wrote patch from OpenAI to")
    /\ pc' = "Done"
    /\ exit' = 0
    /\ UNCHANGED <<prog, stderr, logOk, logLines, reqState, reqLines, repoExtra,
                   openai_key, heurEntries, readFiles, emitted, rerun, netVars>>

\* main, lines 116-138: something raised, or the response is empty: fall through
GenFailed ==
    /\ prog = "generate_patch"
    /\ pc = "TryGenerative"
    /\ Truthy(openai_key)
    /\ \E o \in GenerativeOutcomes(logOk) :
          /\ o.kind = "raised" \/ patch_text(o) = ""
          /\ genResponse' = IF o.kind = "raised" THEN None ELSE Some(o.text)
    /\ genEntries' = genEntries + 1
    /\ pc' = "TryHeuristics"
    /\ UNCHANGED <<prog, exit, stdout, stderr, logOk, logLines, reqState, reqLines,
                   repoExtra, outExists, out, openai_key, heurEntries, readFiles,
                   emitted, outBy, outSig, rerun, netVars>>

\* main, lines 141-142, heuristics_make_patch returns
GenHeuristics ==
    /\ prog = "generate_patch"
    /\ pc = "TryHeuristics"
    /\ logOk
    /\ LET h == heuristics_make_patch(logLines, reqState, reqLines, outExists, out)
       IN  /\ ~h.raised
           /\ outExists' = h.outExists
           /\ out' = h.out
           /\ readFiles' = readFiles \cup h.reads
           /\ emitted' = emitted \o h.frags
    /\ rerun' = (outExists /\ outBy = "heuristics" /\ outSig = Signature(logLines))
    /\ outBy' = "heuristics"
    /\ outSig' = Signature(logLines)
    /\ heurEntries' = heurEntries + 1
    /\ stdout' = Append(stdout, "Wrote heuristic patch to")
    /\ pc' = "Done"
    /\ exit' = 0
    /\ UNCHANGED <<prog, stderr, logOk, logLines, reqState, reqLines, repoExtra,
                   openai_key, genEntries, genResponse, netVars>>

\* main, line 141, open(logs_path) raises in heuristics_make_patch (line 68):
\* nothing catches it, the interpreter prints the traceback and exits 1
GenLogUnreadable ==
    /\ prog = "generate_patch"
    /\ pc = "TryHeuristics"
    /\ ~logOk
    /\ heurEntries' = heurEntries + 1
    /\ stderr' = Append(stderr, "Traceback")
    /\ pc' = "Crashed"
    /\ exit' = 1
    /\ UNCHANGED <<prog, stdout, logOk, logLines, reqState, reqLines, repoExtra,
                   outExists, out, openai_key, genEntries, readFiles, emitted,
                   outBy, outSig, rerun, genResponse, netVars>>

\* main, line 141, open(req_path) raises in write_requirements_patch (line 40),
\* after the old output was removed (line 93)
GenReqUnreadable ==
    /\ prog = "generate_patch"
    /\ pc = "TryHeuristics"
    /\ logOk
    /\ LET h == heuristics_make_patch(logLines, reqState, reqLines, outExists, out)
       IN  /\ h.raised
           /\ outExists' = h.outExists
           /\ out' = h.out
    /\ outBy' = "none"
    /\ outSig' = NoSignature
    /\ heurEntries' = heurEntries + 1
    /\ stderr' = Append(stderr, "Traceback")
    /\ pc' = "Crashed"
    /\ exit' = 1
    /\ UNCHANGED <<prog, stdout, logOk, logLines, reqState, reqLines, repoExtra,
                   openai_key, genEntries, readFiles, emitted, rerun, genResponse,
                   netVars>>

\* the process is gone: its exit status has been taken, its locals and streams
\* no longer exist, the captured log is cleared away; the repository and the
\* file at --out stay
GenReap ==
    /\ prog = "generate_patch"
    /\ pc \in {"Done", "Crashed"}
    /\ pc' = "Idle"
    /\ exit' = -1
    /\ stdout' = <<>>
    /\ stderr' = <<>>
    /\ logOk' = FALSE
    /\ logLines' = <<>>
    /\ openai_key' = None
    /\ genEntries' = 0
    /\ heurEntries' = 0
    /\ readFiles' = {}
    /\ emitted' = <<>>
    /\ rerun' = FALSE
    /\ genResponse' = None
    /\ UNCHANGED <<prog, reqState, reqLines, repoExtra, outExists, out, outBy,
                   outSig, netVars>>

\* the CI workflow runs the generator again, on the same repository and output
\* path, with the log it captured then
GenReinvoke ==
    /\ prog = "generate_patch"
    /\ pc = "Idle"
    /\ \E f \in LogFiles :
          /\ logOk' = f.ok
          /\ logLines' = f.lines
    /\ pc' = "Start"
    /\ UNCHANGED <<prog, exit, stdout, stderr, reqState, reqLines, repoExtra,
                   outExists, out, openai_key, genEntries, heurEntries, readFiles,
                   emitted, outBy, outSig, rerun, genResponse, netVars>>

GenInit ==
    /\ prog = "generate_patch"
    /\ \E f \in LogFiles :
          /\ logOk = f.ok
          /\ logLines = f.lines
    /\ \E r \in ReqFiles :
          /\ reqState = r.state
          /\ reqLines = r.lines
    /\ repoExtra \in {{}, {SYSDEPS, NOTICE}}
    /\ outExists = FALSE
    /\ out = <<>>
    /\ outBy = "none"
    /\ outSig = NoSignature
    /\ openai_key = None
    /\ genEntries = 0
    /\ heurEntries = 0
    /\ readFiles = {}
    /\ emitted = <<>>
    /\ rerun = FALSE
    /\ genResponse = None

(***************************************************************************)
(* CREDENTIAL AND HTTP  (fixbot_fetch_logs.py, fixbot_comment.py)          *)
(***************************************************************************)
\* values of --token, GH_TOKEN and GITHUB_TOKEN: not given, empty, or a token
ArgTokens    == { None, Some(""), Some("tok-arg") }
GHTokens     == { None, Some(""), Some("tok-gh") }
GITHUBTokens == { None, Some(""), Some("tok-github") }

\* Python's `a or b`
Or(a, b) == IF Truthy(a) THEN a ELSE b

\* variant: GITHUB_TOKEN looked up before GH_TOKEN
ResolveTokenSwapped(arg, gh, github) == Or(Or(arg, github), gh)

\* token = args.token or os.environ.get("GH_TOKEN") or os.environ.get("GITHUB_TOKEN")
ResolveToken(arg, gh, github) == Or(Or(arg, gh), github)

\* headers = {"Authorization": f"token {token}", "Accept": ...}
Headers(tok) == [Authorization |-> "token " \o tok[1],
                 Accept        |-> "application/vnd.github.v3+json"]

\* A JSON value is tagged with its Python type; a JSON object is a record.
Dict(r)   == [t |-> "dict", v |-> r]
List(q)   == [t |-> "list", v |-> q]
\* dict.get(k): the value, or None
Get(d, k) == IF k \in DOMAIN d THEN Some(d[k]) ELSE None

\* What requests.get / requests.post may do: raise (a transport error), or
\* return a response with a status code, a body text and, when the body
\* parses, its JSON value.
Raised == [kind |-> "raised"]
Response(status, text, json) ==
    [kind |-> "response", status_code |-> status, text |-> text, json |-> json]

\* provider job objects; the second lacks some of the projected keys
JobDicts ==
    { [id |-> "1", name |-> "build", status |-> "completed", conclusion |-> "failure",
       html_url |-> "https://github.test/job/1", runner_name |-> "r1"],
      [id |-> "2", name |-> "test", status |-> "queued"] }

RunDict ==
    [id |-> "42", head_sha |-> "abc", status |-> "completed", conclusion |-> "failure",
     event |-> "push", run_attempt |-> "1"]

ErrorBodies ==
    { [text |-> "Not Found", json |-> None],
      [text |-> "{msg}", json |-> Some(Dict([message |-> "Bad credentials"]))] }

RunResponses ==
    {Raised}
        \cup {Response(200, "{run}", Some(Dict(RunDict))),
              Response(200, "[]", Some(List(<<>>))),
              Response(200, "<html>", None)}
        \cup {Response(st, b.text, b.json) : st \in {404, 500}, b \in ErrorBodies}

JobsResponses ==
    {Raised}
        \cup {Response(200, "{jobs}", Some(Dict([total_count |-> "n", jobs |-> js]))) :
                 js \in SeqsUpTo(JobDicts, MaxJobs)}
        \cup {Response(200, "{}", Some(Dict([message |-> "no jobs key"]))),
              Response(200, "[]", Some(List(<<>>))),
              Response(200, "<html>", None)}
        \cup {Response(st, b.text, b.json) : st \in {404, 500}, b \in ErrorBodies}

CommentResponses ==
    {Raised}
        \cup {Response(st, "{comment}",
                       Some(Dict([id |-> "7", html_url |-> "https://github.test/c/7"]))) :
                 st \in {200, 201, 202, 204}}
        \cup {Response(201, "{}", Some(Dict([id |-> "8"]))),
              Response(201, "[]", Some(List(<<>>))),
              Response(201, "<html>", None)}
        \cup {Response(st, b.text, b.json) : st \in {404, 500}, b \in ErrorBodies}

\* lines 21-24 of fixbot_comment.py, 23-26 of fixbot_fetch_logs.py
Resolve(next) ==
    /\ pc = "Start"
    /\ token' = ResolveToken(argToken, envGH, envGITHUB)
    /\ IF Truthy(token')
       THEN /\ pc' = next
            /\ UNCHANGED <<exit, stderr>>
       ELSE /\ pc' = "Exited"
            /\ exit' = 2
            /\ stderr' = Append(stderr, "Error: no GitHub token")
    /\ UNCHANGED <<prog, stdout, genVars, argToken, envGH, envGITHUB, requests,
                   responses, run_info, jobs_info, summaryFile>>

\* an exception nothing catches: traceback, exit status 1
Crash ==
    /\ pc' = "Crashed"
    /\ exit' = 1
    /\ stderr' = Append(stderr, "Traceback")

(***************************************************************************)
(* LOG FETCHER  (fixbot_fetch_logs.py)                                     *)
(***************************************************************************)
FetchResolve == prog = "fetch_logs" /\ Resolve("GetRun")

\* lines 34-38 / 43-47: the section made of a response
\*   raised  r.json() failed
\*   info    the section
\*   warn    the warning printed
Section(r, what) ==
    IF r.status_code # 200
    THEN [raised |-> FALSE, info |-> Dict([error |-> r.text]),
          warn |-> <<"Warning: failed to fetch " \o what \o ": "
                        \o ToString(r.status_code)>>]
    ELSE IF r.json = None
    THEN [raised |-> TRUE, info |-> Dict([error |-> r.text]), warn |-> <<>>]
    ELSE [raised |-> FALSE, info |-> r.json[1], warn |-> <<>>]

\* lines 31-38: the run request
FetchGetRun ==
    /\ prog = "fetch_logs"
    /\ pc = "GetRun"
    /\ \E r \in RunResponses :
          /\ requests' = Append(requests, [method |-> "GET", url |-> "/actions/runs/{id}",
                                           headers |-> Headers(token)])
          /\ responses' = Append(responses, r)
          /\ IF r.kind = "raised" \/ Section(r, "run info").raised
             THEN Crash /\ UNCHANGED run_info
             ELSE /\ run_info' = Some(Section(r, "run info").info)
                  /\ stderr' = stderr \o Section(r, "run info").warn
                  /\ pc' = "GetJobs"
                  /\ UNCHANGED exit
    /\ UNCHANGED <<prog, stdout, genVars, argToken, envGH, envGITHUB, token,
                   jobs_info, summaryFile>>

\* lines 40-47: the jobs request
FetchGetJobs ==
    /\ prog = "fetch_logs"
    /\ pc = "GetJobs"
    /\ \E r \in JobsResponses :
          /\ requests' = Append(requests, [method |-> "GET",
                                           url |-> "/actions/runs/{id}/jobs",
                                           headers |-> Headers(token)])
          /\ responses' = Append(responses, r)
          /\ IF r.kind = "raised" \/ Section(r, "jobs").raised
             THEN Crash /\ UNCHANGED jobs_info
             ELSE /\ jobs_info' = Some(Section(r, "jobs").info)
                  /\ stderr' = stderr \o Section(r, "jobs").warn
                  /\ pc' = "Assemble"
                  /\ UNCHANGED exit
    /\ UNCHANGED <<prog, stdout, genVars, argToken, envGH, envGITHUB, token,
                   run_info, summaryFile>>

\* variant: the projections inserted at the front, so in reverse order
JobsSummaryReversed(jobs) ==
    [i \in 1..Len(jobs) |->
        [id         |-> Get(jobs[Len(jobs) + 1 - i], "id"),
         name       |-> Get(jobs[Len(jobs) + 1 - i], "name"),
         status     |-> Get(jobs[Len(jobs) + 1 - i], "status"),
         conclusion |-> Get(jobs[Len(jobs) + 1 - i], "conclusion"),
         html_url   |-> Get(jobs[Len(jobs) + 1 - i], "html_url")]]

\* lines 58-65: one projection per job, in the order of the response
JobsSummary(jobs) ==
    [i \in 1..Len(jobs) |->
        [id         |-> Get(jobs[i], "id"),
         name       |-> Get(jobs[i], "name"),
         status     |-> Get(jobs[i], "status"),
         conclusion |-> Get(jobs[i], "conclusion"),
         html_url   |-> Get(jobs[i], "html_url")]]

\* lines 50-65: the summary object
Summary(run, jobs) ==
    [run          |-> [k \in {"id", "head_sha", "status", "conclusion", "event"} |->
                          Get(run.v, k)],
     jobs_summary |-> IF jobs.t = "dict" /\ "jobs" \in DOMAIN jobs.v
                      THEN JobsSummary(jobs.v.jobs)
                      ELSE <<>>,
     raw_run      |-> run,
     raw_jobs     |-> jobs]

\* lines 49-68: assemble and write; run_info.get raises when the run body was
\* JSON but not an object
FetchAssemble ==
    /\ prog = "fetch_logs"
    /\ pc = "Assemble"
    /\ IF run_info[1].t # "dict"
       THEN Crash /\ UNCHANGED summaryFile
       ELSE /\ summaryFile' = Some(Summary(run_info[1], jobs_info[1]))
            /\ pc' = "Done"
            /\ exit' = 0
            /\ UNCHANGED stderr
    /\ UNCHANGED <<prog, stdout, genVars, argToken, envGH, envGITHUB, token,
                   requests, responses, run_info, jobs_info>>

(***************************************************************************)
(* COMMENT POSTER  (fixbot_comment.py)                                     *)
(***************************************************************************)
PostResolve == prog = "comment" /\ Resolve("Post")

\* variant: every 2xx status taken as success
PostFailedNon2xx(r) == r.status_code < 200 \/ r.status_code > 299

\* line 30: r.status_code not in (200, 201)
PostFailed(r) == r.status_code \notin {200, 201}

\* lines 26-33: the POST and what is made of the response
PostComment ==
    /\ prog = "comment"
    /\ pc = "Post"
    /\ \E r \in CommentResponses :
          /\ requests' = Append(requests, [method |-> "POST",
                                           url |-> "/issues/{pr}/comments",
                                           headers |-> Headers(token)])
          /\ responses' = Append(responses, r)
          /\ IF r.kind = "raised"
             THEN Crash /\ UNCHANGED stdout
             ELSE IF PostFailed(r)
             THEN /\ stderr' = Append(stderr, "Failed to post comment: "
                                  \o ToString(r.status_code) \o " " \o r.text)
                  /\ exit' = 1
                  /\ pc' = "Failed"
                  /\ UNCHANGED stdout
             ELSE IF r.json = None \/ r.json[1].t # "dict"
             THEN Crash /\ UNCHANGED stdout
             ELSE /\ stdout' = Append(stdout, "Comment posted:  "
                                  \o (IF Get(r.json[1].v, "html_url") = None THEN "None"
                                      ELSE r.json[1].v.html_url))
                  /\ exit' = 0
                  /\ pc' = "Done"
                  /\ UNCHANGED stderr
    /\ UNCHANGED <<prog, genVars, argToken, envGH, envGITHUB, token, run_info,
                   jobs_info, summaryFile>>

NetInit ==
    /\ prog \in {"fetch_logs", "comment"}
    /\ argToken \in ArgTokens
    /\ envGH \in GHTokens
    /\ envGITHUB \in GITHUBTokens
    /\ token = None
    /\ requests = <<>>
    /\ responses = <<>>
    /\ run_info = None
    /\ jobs_info = None
    /\ summaryFile = None

GenIdle ==
    /\ logOk = FALSE /\ logLines = <<>> /\ reqState = "absent" /\ reqLines = <<>>
    /\ repoExtra = {} /\ outExists = FALSE /\ out = <<>> /\ outBy = "none"
    /\ outSig = NoSignature /\ openai_key = None /\ genEntries = 0
    /\ heurEntries = 0 /\ readFiles = {} /\ emitted = <<>>
    /\ rerun = FALSE /\ genResponse = None

NetIdle ==
    /\ argToken = None /\ envGH = None /\ envGITHUB = None /\ token = None
    /\ requests = <<>> /\ responses = <<>> /\ run_info = None /\ jobs_info = None
    /\ summaryFile = None

Init ==
    /\ pc = "Start"
    /\ exit = -1
    /\ stdout = <<>>
    /\ stderr = <<>>
    /\ \/ GenInit /\ NetIdle
       \/ NetInit /\ GenIdle

GenNext ==
    \/ GenBegin
    \/ GenSkipped
    \/ GenSuccess
    \/ GenFailed
    \/ GenHeuristics
    \/ GenLogUnreadable
    \/ GenReqUnreadable
    \/ GenReap
    \/ GenReinvoke

FetchNext ==
    \/ FetchResolve
    \/ FetchGetRun
    \/ FetchGetJobs
    \/ FetchAssemble

PostNext ==
    \/ PostResolve
    \/ PostComment

Next == GenNext \/ FetchNext \/ PostNext

Spec == Init /\ [][Next]_vars

(***************************************************************************)
(* PROPERTIES                                                              *)
(***************************************************************************)
Gen      == prog = "generate_patch"
Fetch    == prog = "fetch_logs"
Post     == prog = "comment"
Finished == exit # -1

HasLine(text, line) == \E i \in 1..Len(text) : text[i] = line

\* the fragment for the notice file, as it stands in a patch
NoticeFragment ==
    << "--- /dev/null",
       "+++ b/.fixbot_notice.txt",
       "@@ -0,0 +1,2 @@",
       "+FixBot could not identify an automatic fix.",
       "+See .fixbot_logs.txt for details." >>

\* the lowercased module names the three module signatures of the log carry
DetectedModules ==
    { Lower(logLines[i].arg) :
        i \in { j \in 1..Len(logLines) :
                  logLines[j].sig \in {"ModuleNotFoundError", "ImportError",
                                       "NoMatchingDistribution"} } }

\* the module names a patch adds: its "+name" lines
AddedModules(text) == { n \in {"foo", "bar"} : HasLine(text, "+" \o n) }

----------------------------------------------------------------------------
\* C1: every run of the patch generator stays within Start, TryGenerative,
\* TryHeuristics and Done, enters the generative try block at most once, and
\* can only end in Done, with a patch at the output path and exit status 0,
\* whatever the log file, the repository root, the key and the generative
\* call do.
C1_AlwaysDoneExit0 ==
    Gen =>
        /\ pc \in {"Idle", "Start", "TryGenerative", "TryHeuristics", "Done"}
        /\ genEntries <= 1
        /\ (Finished => pc = "Done" /\ exit = 0)
        /\ (pc = "Done" => outExists /\ exit = 0)

----------------------------------------------------------------------------
\* C2: once a run of the patch generator has ended: if the key was absent or
\* the generative path failed (the import, the open of the log or the call
\* raised, or the text returned was empty), the run ended without error and
\* the output is what the heuristic path wrote; and the output is either the
\* one line the generative path wrote, with the heuristic path never run, or
\* the fragments the heuristic path wrote, never both.
C2_FailureAbsorbed ==
    (Gen /\ Finished) =>
        /\ (~Truthy(openai_key) \/ genResponse = None \/ genResponse[1] = "")
              => /\ exit = 0
                 /\ stderr = <<>>
                 /\ heurEntries = 1
                 /\ outBy = "heuristics"
        /\ \/ outBy = "generative" /\ heurEntries = 0 /\ Len(out) = 1 /\ emitted = <<>>
           \/ outBy = "heuristics" /\ heurEntries = 1 /\ ~HasLine(out, "PATCH")

----------------------------------------------------------------------------
\* C3: in the patch the heuristic path has written, the notice fragment is
\* present if and only if neither a requirements.txt fragment nor a
\* .fixbot_system_deps.txt fragment is; and when no line of the log carries a
\* signature and no key is set, the patch is exactly the notice fragment.
C3_NoticeIffNothingElse ==
    (Gen /\ pc = "Done" /\ outBy = "heuristics") =>
        /\ HasLine(out, "+++ b/.fixbot_notice.txt")
              <=> ~(HasLine(out, "+++ b/requirements.txt")
                      \/ HasLine(out, "+++ b/.fixbot_system_deps.txt"))
        /\ (\E i \in 1..Len(emitted) : emitted[i].rel = NOTICE)
              <=> (\A i \in 1..Len(emitted) : emitted[i].rel \notin {REQ, SYSDEPS})
        /\ ((\A i \in 1..Len(logLines) : logLines[i].sig = "none") /\ ~Truthy(openai_key))
              => out = NoticeFragment

\* a header fragment was written and the notice fragment was not
C3_Witness ==
    /\ Gen /\ pc = "Done" /\ outBy = "heuristics"
    /\ HasLine(out, "+++ b/.fixbot_system_deps.txt")
    /\ ~HasLine(out, "+++ b/.fixbot_notice.txt")
    /\ DetectedModules = {}

----------------------------------------------------------------------------
\* C4: when the log names missing modules and the heuristic path has written
\* its patch: with requirements.txt present, the patch adds exactly the
\* missing modules equal to no trimmed line of it, in an update fragment, and
\* has no requirements.txt fragment when there is none to add; with
\* requirements.txt absent, a new-file fragment adds exactly the missing
\* modules.
C4_RequirementsStep ==
    (Gen /\ pc = "Done" /\ outBy = "heuristics" /\ DetectedModules # {}) =>
        LET absentFromFile ==
                { m \in DetectedModules :
                    \A i \in 1..Len(reqLines) : Strip(reqLines[i]) # m }
        IN  /\ reqState = "file" =>
                /\ AddedModules(out) = absentFromFile
                /\ HasLine(out, "--- a/requirements.txt") <=> absentFromFile # {}
                /\ HasLine(out, "+++ b/requirements.txt") <=> absentFromFile # {}
                /\ \A i \in 1..Len(emitted) :
                      emitted[i].rel = REQ => /\ emitted[i].form = "update"
                                              /\ Range(emitted[i].added) = absentFromFile
            /\ reqState = "absent" =>
                /\ AddedModules(out) = DetectedModules
                /\ Len(out) >= 3 + Cardinality(DetectedModules)
                /\ out[1] = "--- /dev/null"
                /\ out[2] = "+++ b/requirements.txt"
                /\ out[3] = "@@ -0,0 +1," \o ToString(Cardinality(DetectedModules)) \o " @@"
                /\ \A k \in 1..Cardinality(DetectedModules) :
                      \E n \in DetectedModules : out[3 + k] = "+" \o n

\* requirements.txt holds a trimmed-equal line for bar: of {foo, bar} only foo is added
C4_Witness ==
    /\ Gen /\ pc = "Done" /\ outBy = "heuristics"
    /\ DetectedModules = {"foo", "bar"}
    /\ reqState = "file"
    /\ reqLines = <<"baz", "qux", " bar ", "quux">>
    /\ AddedModules(out) = {"foo"}
    /\ HasLine(out, "--- a/requirements.txt")

----------------------------------------------------------------------------
\* C5: the JSON document the fetcher has written has exactly the keys run,
\* jobs_summary, raw_run and raw_jobs; if the jobs request failed,
\* jobs_summary is empty and raw_jobs has an error key; if it returned an
\* object with a jobs list, jobs_summary has one projection per job, in the
\* order of the response.
C5_SummaryShape ==
    (Fetch /\ summaryFile # None) =>
        LET doc == summaryFile[1]
            r2  == responses[2]
        IN  /\ DOMAIN doc = {"run", "jobs_summary", "raw_run", "raw_jobs"}
            /\ DOMAIN doc.run = {"id", "head_sha", "status", "conclusion", "event"}
            /\ r2.status_code # 200 =>
                  /\ doc.jobs_summary = <<>>
                  /\ "error" \in DOMAIN doc.raw_jobs.v
            /\ (r2.status_code = 200 /\ r2.json[1].t = "dict"
                  /\ "jobs" \in DOMAIN r2.json[1].v) =>
                  LET jobs == r2.json[1].v.jobs
                  IN  /\ Len(doc.jobs_summary) = Len(jobs)
                      /\ \A i \in 1..Len(jobs) :
                            /\ doc.jobs_summary[i].id = Get(jobs[i], "id")
                            /\ doc.jobs_summary[i].name = Get(jobs[i], "name")
                            /\ doc.jobs_summary[i].html_url = Get(jobs[i], "html_url")

\* the run request failed, the jobs request returned two different jobs
C5_Witness ==
    /\ Fetch /\ summaryFile # None
    /\ responses[1].status_code = 404
    /\ responses[2].status_code = 200
    /\ Len(summaryFile[1].jobs_summary) = 2
    /\ summaryFile[1].jobs_summary[1].id = Some("2")
    /\ summaryFile[1].jobs_summary[2].id = Some("1")

----------------------------------------------------------------------------
\* C6: a run of the fetcher that resolved a credential and has ended has
\* issued both GET requests, has written the summary file and has exit
\* status 0, whatever either request did (a status other than success, or a
\* transport error).
C6_BothRequestsAlways ==
    (Fetch /\ Truthy(token) /\ Finished) =>
        /\ Len(requests) = 2
        /\ summaryFile # None
        /\ exit = 0

----------------------------------------------------------------------------
\* what print("Comment posted: ", r.json().get("html_url")) writes for a response
Reported(r) ==
    "Comment posted:  "
        \o (IF "html_url" \in DOMAIN r.json[1].v THEN r.json[1].v.html_url ELSE "None")

\* C7 as stated: one POST and no more; every 2xx response (with a JSON
\* object as body, in which html_url is looked up) is reported with its
\* html_url and exit status 0, every other response is printed with status
\* and body to the error stream and ends with exit status 1.
C7_Every2xxSucceeds ==
    (Post /\ Len(responses) = 1 /\ responses[1].kind = "response") =>
        LET r == responses[1]
        IN  /\ Len(requests) = 1
            /\ (r.status_code >= 200 /\ r.status_code <= 299
                  /\ r.json # None /\ r.json[1].t = "dict") =>
                  /\ exit = 0
                  /\ stdout = <<Reported(r)>>
            /\ (r.status_code < 200 \/ r.status_code > 299) =>
                  /\ exit = 1
                  /\ stderr = <<"Failed to post comment: " \o ToString(r.status_code)
                                   \o " " \o r.text>>

\* C7 as amended: at most one request is ever issued, a POST, and exactly one
\* once the poster has ended with status 0 or 1; a response with status 200
\* or 201 and a JSON object as body is reported with its html_url and exit
\* status 0; a response with any other status, 2xx or not, is printed with
\* status and body to the error stream and ends with exit status 1.
C7_Only200And201Succeed ==
    Post =>
        /\ Len(requests) <= 1
        /\ \A i \in 1..Len(requests) : requests[i].method = "POST"
        /\ exit \in {0, 1} => Len(requests) = 1
        /\ (Len(responses) = 1 /\ responses[1].kind = "response") =>
              LET r == responses[1]
              IN  /\ (r.status_code \in {200, 201} /\ r.json # None /\ r.json[1].t = "dict")
                        => /\ exit = 0
                           /\ pc = "Done"
                           /\ stdout = <<Reported(r)>>
                           /\ stderr = <<>>
                  /\ r.status_code \notin {200, 201}
                        => /\ exit = 1
                           /\ stdout = <<>>
                           /\ stderr = <<"Failed to post comment: "
                                            \o ToString(r.status_code) \o " " \o r.text>>

\* a 201 response reported with its html_url
C7_Witness ==
    /\ Post /\ exit = 0
    /\ Len(requests) = 1
    /\ responses[1].status_code = 201
    /\ stdout = <<"Comment posted:  https://github.test/c/7">>

----------------------------------------------------------------------------
\* the first non-empty value in the order --token, GH_TOKEN, GITHUB_TOKEN
FirstNonEmpty ==
    IF argToken # None /\ argToken # Some("") THEN argToken
    ELSE IF envGH # None /\ envGH # Some("") THEN envGH
    ELSE IF envGITHUB # None /\ envGITHUB # Some("") THEN envGITHUB
    ELSE None

\* C8: in the poster and the fetcher, when none of --token, GH_TOKEN and
\* GITHUB_TOKEN is non-empty the process ends with status 2, having issued no
\* request and written no file, and status 2 arises in no other way; when
\* one is non-empty, every request issued carries "token " and the first
\* non-empty of them in its Authorization header.
C8_CredentialOrder ==
    (Post \/ Fetch) =>
        /\ (FirstNonEmpty = None /\ pc # "Start") => exit = 2 /\ pc = "Exited"
        /\ exit = 2 => /\ FirstNonEmpty = None
                       /\ requests = <<>>
                       /\ summaryFile = None
        /\ \A i \in 1..Len(requests) :
              /\ FirstNonEmpty # None
              /\ requests[i].headers.Authorization = "token " \o FirstNonEmpty[1]

\* --token is empty and GH_TOKEN unset: both GETs carry GITHUB_TOKEN
C8_Witness ==
    /\ Fetch
    /\ argToken = Some("") /\ envGH = None /\ envGITHUB = Some("tok-github")
    /\ Len(requests) = 2
    /\ requests[2].headers.Authorization = "token tok-github"

----------------------------------------------------------------------------
\* C9: with no requirements.txt under the repository root, when the heuristic
\* path completes on an output path that holds the patch it made from a log
\* with the same set of module names and the same list of headers (the same
\* log, or one showing the module names in another order), the patch it
\* leaves is identical to the one it found: nothing of the old file survives
\* beside it and nothing is appended to it.
C9_Idempotent ==
    [][ ( /\ Gen
          /\ pc = "TryHeuristics" /\ pc' = "Done"
          /\ reqState = "absent"
          /\ outExists /\ outBy = "heuristics"
          /\ outSig.missing = DetectedModules
          /\ outSig.headers = MissingHeaders(logLines) )
        => out' = out ]_vars

\* a second heuristic run over the same detections has rewritten a patch
\* that holds a requirements.txt fragment for two modules
C9_Witness ==
    /\ Gen /\ pc = "Done" /\ rerun
    /\ reqState = "absent"
    /\ DetectedModules = {"foo", "bar"}
    /\ out = <<"--- /dev/null", "+++ b/requirements.txt", "@@ -0,0 +1,2 @@",
               "+bar", "+foo">>

----------------------------------------------------------------------------
\* C10 as stated: every fragment the heuristic path emits has the form the
\* existence of its file under the repository root calls for: a new-file
\* fragment only for a file that does not exist, an update fragment for one
\* that does; and no file diffed as new is read.
C10_FormFollowsExistence ==
    Gen =>
        \A i \in 1..Len(emitted) :
            LET f      == emitted[i]
                exists == IF f.rel = REQ THEN reqState # "absent" ELSE f.rel \in repoExtra
            IN  /\ f.form = "new" => ~exists
                /\ exists => f.form = "update"
                /\ f.form = "new" => f.rel \notin readFiles

\* a new-file fragment of a patch starts at line i of it and is the fragment for f
NewFileFragmentAt(text, i, f) ==
    /\ i + 2 + Len(f.added) <= Len(text)
    /\ text[i] = "--- /dev/null"
    /\ text[i + 1] = "+++ b/" \o f.rel
    /\ text[i + 2] = "@@ -0,0 +1," \o ToString(Len(f.added)) \o " @@"
    /\ \A k \in 1..Len(f.added) : text[i + 2 + k] = "+" \o f.added[k]
    /\ i + 2 + Len(f.added) < Len(text) => text[i + 3 + Len(f.added)] = "--- /dev/null"

\* C10 as amended: the existence of requirements.txt under the repository
\* root decides the form of its fragment (new-file when it does not exist,
\* update when it does); the fragments for .fixbot_system_deps.txt and
\* .fixbot_notice.txt are new-file fragments whether or not those files
\* exist; no file diffed as new is read; and every new-file fragment has
\* /dev/null as its before side and the hunk "@@ -0,0 +1,N @@" with N the
\* number of its added lines.
C10_RequirementsFormFollowsExistence ==
    Gen =>
        /\ \A i \in 1..Len(emitted) :
              LET f == emitted[i]
              IN  /\ f.rel = REQ => /\ f.form = "new" <=> reqState = "absent"
                                    /\ f.form = "update" <=> reqState = "file"
                  /\ f.rel \in {SYSDEPS, NOTICE} => f.form = "new"
                  /\ f.form = "new" => f.rel \notin readFiles
        /\ (pc = "Done" /\ outBy = "heuristics") =>
              /\ \A i \in 1..Len(out) :
                    out[i] = "--- /dev/null" =>
                       \E j \in 1..Len(emitted) :
                          emitted[j].form = "new" /\ NewFileFragmentAt(out, i, emitted[j])
              /\ \A j \in 1..Len(emitted) :
                    emitted[j].form = "new" =>
                       \E i \in 1..Len(out) : NewFileFragmentAt(out, i, emitted[j])
              /\ HasLine(out, "--- a/requirements.txt")
                    <=> \E j \in 1..Len(emitted) : emitted[j].form = "update"

\* an update fragment for the existing requirements.txt, which was read, and
\* a new-file fragment for .fixbot_system_deps.txt, which exists and was not
C10_Witness ==
    /\ Gen /\ pc = "Done" /\ outBy = "heuristics"
    /\ reqState = "file" /\ SYSDEPS \in repoExtra
    /\ Len(emitted) = 2
    /\ emitted[1].form = "update" /\ emitted[2].form = "new"
    /\ readFiles = {REQ}

====
